---- MODULE Spec2Model ----
(***************************************************************************)
(* Model of the Lambda handler of lambda_function/lambda_function.py: it   *)
(* reads the SSM parameter /platform/account/env and maps it to Helm       *)
(* values.  The parameter store and the hosting Lambda service are the     *)
(* environment of the handler.                                             *)
(*                                                                         *)
(* Python strings that are only compared are TLA+ strings.  The JSON       *)
(* document of Data.HelmValues is a sequence of one-character strings, so  *)
(* that json.dumps and json.loads are computed character by character.     *)
(***************************************************************************)
EXTENDS Integers, Sequences, FiniteSets, TLC

(* ------------------------------ bounds --------------------------------- *)

\* number of handler invocations in one behaviour
NumInvocations == 2

Invocations == 1..NumInvocations

\* values the parameter may hold
EnvValues == {"development", "production", "staging", "Development"}

\* <<event, context>> arguments handed to the handler: the empty dicts of the
\* tests, and a custom-resource Create event with a LambdaContext
Arguments == {<<"ev_empty", "ctx_empty">>, <<"ev_create", "ctx_lambda">>}

(* --------------------------- parameter store --------------------------- *)

param_name == "/platform/account/env"

\* the store holds no parameter under param_name
Absent == "<absent>"

StoreContents == EnvValues \cup {Absent}

\* how the store answers a GetParameter call
StoreStatuses == {"ok", "unreachable", "denied", "no_parameter_field", "no_value_field"}

\* str(e) of the errors a GetParameter call raises
ParameterNotFoundMsg == "An error occurred (ParameterNotFound) when calling the GetParameter operation: Parameter /platform/account/env not found."

AccessDeniedMsg == "An error occurred (AccessDeniedException) when calling the GetParameter operation: not authorized to perform: ssm:GetParameter"

EndpointConnectionMsg == "Could not connect to the endpoint URL"

\* str(e) of the error boto3.client raises without a configured region
NoRegionMsg == "You must specify a region."

\* str(KeyError(k)) is the repr of the key
KeyErrorMsg(k) == "'" \o k \o "'"

\* outcome of a Python call: a returned value or a raised exception
Returns(v) == [raised |-> FALSE, val |-> v]

Raises(msg) == [raised |-> TRUE, msg |-> msg]

\* ssm_client.get_parameter(Name=param_name) against a store in the given state
get_parameter(content, status) ==
    CASE status = "unreachable" -> Raises(EndpointConnectionMsg)
      [] status = "denied" -> Raises(AccessDeniedMsg)
      [] status = "no_parameter_field" -> Returns([ResponseMetadata |-> "200"])
      [] status = "no_value_field" -> Returns([Parameter |-> [Name |-> param_name]])
      [] OTHER -> IF content = Absent
                  THEN Raises(ParameterNotFoundMsg)
                  ELSE Returns([Parameter |-> [Name |-> param_name, Value |-> content]])

(* ------------------------------- json ---------------------------------- *)

JInt(n) == [kind |-> "int", val |-> n]

\* a dict is the sequence of its <<key, value>> items in insertion order
JDict(items) == [kind |-> "dict", val |-> items]

JSONDecodeError == [kind |-> "error"]

K_controller == <<"c", "o", "n", "t", "r", "o", "l", "l", "e", "r">>

K_replicaCount == <<"r", "e", "p", "l", "i", "c", "a", "C", "o", "u", "n", "t">>

Digits == <<"0", "1", "2", "3", "4", "5", "6", "7", "8", "9">>

IsDigit(c) == \E d \in 1..10 : Digits[d] = c

DigitVal(c) == (CHOOSE d \in 1..10 : Digits[d] = c) - 1

RECURSIVE IntToChars(_)
IntToChars(n) ==
    IF n < 10 THEN <<Digits[n + 1]>>
    ELSE IntToChars(n \div 10) \o <<Digits[(n % 10) + 1]>>

RECURSIVE json_dumps(_)
RECURSIVE DumpItems(_)
DumpItems(items) ==
    IF items = <<>> THEN <<>>
    ELSE LET item == Head(items)
             rest == Tail(items)
         IN  <<"\"">> \o item[1] \o <<"\"", ":", " ">> \o json_dumps(item[2])
             \o (IF rest = <<>> THEN <<>> ELSE <<",", " ">> \o DumpItems(rest))

json_dumps_unclosed(o) ==
    IF o.kind = "int" THEN IntToChars(o.val)
    ELSE <<"{">> \o DumpItems(o.val)

json_dumps(o) ==
    IF o.kind = "int" THEN IntToChars(o.val)
    ELSE <<"{">> \o DumpItems(o.val) \o <<"}">>

ParseFail == [ok |-> FALSE]

ParseOk(v, next) == [ok |-> TRUE, val |-> v, next |-> next]

RECURSIVE SkipWs(_, _)
SkipWs(s, i) == IF i <= Len(s) /\ s[i] = " " THEN SkipWs(s, i + 1) ELSE i

RECURSIVE ScanInt(_, _, _)
ScanInt(s, i, acc) ==
    IF i <= Len(s) /\ IsDigit(s[i])
    THEN ScanInt(s, i + 1, 10 * acc + DigitVal(s[i]))
    ELSE ParseOk(JInt(acc), i)

RECURSIVE ClosingQuote(_, _)
ClosingQuote(s, i) ==
    IF i > Len(s) THEN 0
    ELSE IF s[i] = "\"" THEN i ELSE ClosingQuote(s, i + 1)

ParseString(s, i) ==
    IF i > Len(s) \/ s[i] /= "\"" THEN ParseFail
    ELSE LET j == ClosingQuote(s, i + 1)
         IN  IF j = 0 THEN ParseFail ELSE ParseOk(SubSeq(s, i + 1, j - 1), j + 1)

RECURSIVE ParseValue(_, _)
RECURSIVE ParseMembers(_, _, _)
ParseMembers(s, i, acc) ==
    LET k == ParseString(s, i)
    IN  IF ~k.ok THEN ParseFail
        ELSE LET c == SkipWs(s, k.next)
             IN  IF c > Len(s) \/ s[c] /= ":" THEN ParseFail
                 ELSE LET v == ParseValue(s, SkipWs(s, c + 1))
                      IN  IF ~v.ok THEN ParseFail
                          ELSE LET e == SkipWs(s, v.next)
                                   items == Append(acc, <<k.val, v.val>>)
                               IN  IF e > Len(s) THEN ParseFail
                                   ELSE IF s[e] = "}" THEN ParseOk(JDict(items), e + 1)
                                   ELSE IF s[e] = "," THEN ParseMembers(s, SkipWs(s, e + 1), items)
                                   ELSE ParseFail

ParseValue(s, i) ==
    IF i > Len(s) THEN ParseFail
    ELSE IF s[i] = "{"
         THEN LET m == SkipWs(s, i + 1)
              IN  IF m <= Len(s) /\ s[m] = "}" THEN ParseOk(JDict(<<>>), m + 1)
                  ELSE ParseMembers(s, m, <<>>)
    ELSE IF IsDigit(s[i]) THEN ScanInt(s, i, 0)
    ELSE ParseFail

json_loads(s) ==
    LET r == ParseValue(s, SkipWs(s, 1))
    IN  IF r.ok /\ SkipWs(s, r.next) = Len(s) + 1 THEN r.val ELSE JSONDecodeError

(* ------------------------------ handler -------------------------------- *)

\* AWS_REGION / AWS_DEFAULT_REGION of the process that runs the handler
NoRegion == "<no region>"

Regions == {"us-east-1", NoRegion}

\* boto3.client("ssm")
boto3_client(region) ==
    IF region = NoRegion THEN Raises(NoRegionMsg) ELSE Returns("ssm_client")

HelmDoc(n) == JDict(<< <<K_controller, JDict(<< <<K_replicaCount, JInt(n)>> >>)>> >>)

helm_values_only_production(env_value) ==
    IF env_value = "production" THEN HelmDoc(2) ELSE HelmDoc(1)

helm_values_ignore_case(env_value) ==
    IF env_value \in {"development", "Development"} THEN HelmDoc(1) ELSE HelmDoc(2)

helm_values_dev(env_value) ==
    IF env_value = "dev" THEN HelmDoc(1) ELSE HelmDoc(2)

\* the conditional expression that selects the Helm values
helm_values(env_value) ==
    IF env_value = "development" THEN HelmDoc(1) ELSE HelmDoc(2)

\* the body of the try block, given the outcome of the get_parameter call
try_block(gp) ==
    IF gp.raised THEN Raises(gp.msg)
    ELSE IF "Parameter" \notin DOMAIN gp.val THEN Raises(KeyErrorMsg("Parameter"))
    ELSE IF "Value" \notin DOMAIN gp.val.Parameter THEN Raises(KeyErrorMsg("Value"))
    ELSE Returns([Status |-> "SUCCESS",
                  Data |-> [HelmValues |-> json_dumps(helm_values(gp.val.Parameter.Value))]])

except_no_reason(msg) == [Status |-> "FAILED", Reason |-> ""]

except_with_data(msg) ==
    [Status |-> "FAILED", Reason |-> msg, Data |-> [HelmValues |-> json_dumps(HelmDoc(2))]]

\* the except clause: the value returned for an exception whose str() is msg
except_Exception(msg) == [Status |-> "FAILED", Reason |-> msg]

handler_event_dependent(event, context, gp) ==
    LET t == try_block(gp)
    IN  IF t.raised \/ event = "ev_create" THEN except_Exception("unsupported event") ELSE t.val

\* what handler(event, context) returns once get_parameter has come back with gp
handler(event, context, gp) ==
    LET t == try_block(gp)
    IN  IF t.raised THEN except_Exception(t.msg) ELSE t.val

(* ------------------------------- state --------------------------------- *)

VARIABLES store, status, pc, event, context, reads, response, result, error

vars == <<store, status, pc, event, context, reads, response, result, error>>

\* no value yet
None == [none |-> TRUE]

Init ==
    /\ store \in StoreContents
    /\ status \in StoreStatuses
    /\ pc = [i \in Invocations |-> "idle"]
    /\ event = [i \in Invocations |-> "unset"]
    /\ context = [i \in Invocations |-> "unset"]
    /\ reads = [i \in Invocations |-> 0]
    /\ response = [i \in Invocations |-> None]
    /\ result = [i \in Invocations |-> None]
    /\ error = [i \in Invocations |-> None]

(* --------------------------- environment ------------------------------- *)

\* ssm_client.put_parameter(Name=param_name, Value=v) by an operator or a test
PutParameter(v) ==
    /\ store' = v
    /\ UNCHANGED <<status, pc, event, context, reads, response, result, error>>

\* the store becomes unreachable, denies access, answers malformed, or recovers
StoreCondition(s) ==
    /\ status /= s
    /\ status' = s
    /\ UNCHANGED <<store, pc, event, context, reads, response, result, error>>

(* ----------------------------- invocation ------------------------------ *)

\* handler(ev, ctx) is entered: the client is built and, unless that raises,
\* the GetParameter request is sent
Invoke(i, ev, ctx, region) ==
    /\ pc[i] = "idle"
    /\ event' = [event EXCEPT ![i] = ev]
    /\ context' = [context EXCEPT ![i] = ctx]
    /\ LET c == boto3_client(region)
       IN  IF c.raised
           THEN /\ pc' = [pc EXCEPT ![i] = "raised"]
                /\ error' = [error EXCEPT ![i] = Raises(c.msg)]
                /\ UNCHANGED reads
           ELSE /\ pc' = [pc EXCEPT ![i] = "reading"]
                /\ reads' = [reads EXCEPT ![i] = reads[i] + 1]
                /\ UNCHANGED error
    /\ UNCHANGED <<store, status, response, result>>

Respond_retry(i) ==
    /\ pc[i] = "reading"
    /\ LET gp == get_parameter(store, status)
       IN  /\ response' = [response EXCEPT ![i] = gp]
           /\ IF gp.raised /\ reads[i] < 2
              THEN /\ reads' = [reads EXCEPT ![i] = reads[i] + 1]
                   /\ UNCHANGED <<pc, result>>
              ELSE /\ result' = [result EXCEPT ![i] = handler(event[i], context[i], gp)]
                   /\ pc' = [pc EXCEPT ![i] = "done"]
                   /\ UNCHANGED reads
    /\ UNCHANGED <<store, status, event, context, error>>

Respond_writes(i) ==
    /\ pc[i] = "reading"
    /\ LET gp == get_parameter(store, status)
       IN  /\ response' = [response EXCEPT ![i] = gp]
           /\ result' = [result EXCEPT ![i] = handler(event[i], context[i], gp)]
           /\ store' = IF gp.raised THEN "production" ELSE store
    /\ pc' = [pc EXCEPT ![i] = "done"]
    /\ UNCHANGED <<status, event, context, reads, error>>

\* the GetParameter call comes back and the handler runs to its return
Respond(i) ==
    /\ pc[i] = "reading"
    /\ LET gp == get_parameter(store, status)
       IN  /\ response' = [response EXCEPT ![i] = gp]
           /\ result' = [result EXCEPT ![i] = handler(event[i], context[i], gp)]
    /\ pc' = [pc EXCEPT ![i] = "done"]
    /\ UNCHANGED <<store, status, event, context, reads, error>>

Timeout_as_exception(i) ==
    /\ pc[i] = "reading"
    /\ pc' = [pc EXCEPT ![i] = "timedout"]
    /\ result' = [result EXCEPT ![i] = except_Exception("Task timed out")]
    /\ UNCHANGED <<store, status, event, context, reads, response, error>>

\* the Lambda service ends the invocation when the function timeout elapses
Timeout(i) ==
    /\ pc[i] = "reading"
    /\ pc' = [pc EXCEPT ![i] = "timedout"]
    /\ UNCHANGED <<store, status, event, context, reads, response, result, error>>

Next ==
    \/ \E i \in Invocations, args \in Arguments, region \in Regions :
          Invoke(i, args[1], args[2], region)
    \/ \E i \in Invocations : Respond(i)
    \/ \E v \in EnvValues : PutParameter(v)
    \/ \E s \in StoreStatuses : StoreCondition(s)

Spec == Init /\ [][Next]_vars

NextHosted ==
    \/ Next
    \/ \E i \in Invocations : Timeout(i)

\* the handler hosted by the Lambda service with its function timeout
SpecHosted == Init /\ [][NextHosted]_vars

(* ----------------------- reading the results --------------------------- *)

IsSuccess(r) == "Status" \in DOMAIN r /\ r.Status = "SUCCESS"

IsFailed(r) == "Status" \in DOMAIN r /\ r.Status = "FAILED"

Returned(i) == pc[i] = "done"

\* the get_parameter call of invocation i came back with a parameter value
ReadValue(i) ==
    /\ Returned(i)
    /\ ~response[i].raised
    /\ "Parameter" \in DOMAIN response[i].val
    /\ "Value" \in DOMAIN response[i].val.Parameter

ValueRead(i) == response[i].val.Parameter.Value

\* the get_parameter call of invocation i raised
ReadFailed(i) == Returned(i) /\ response[i].raised

HasKey(d, k) == d.kind = "dict" /\ \E n \in 1..Len(d.val) : d.val[n][1] = k

Get(d, k) == d.val[CHOOSE n \in 1..Len(d.val) : d.val[n][1] = k][2]

\* controller.replicaCount of the deserialized Data.HelmValues, 0 when there is none
ReplicaCountOf(r) ==
    LET d == json_loads(r.Data.HelmValues)
    IN  IF HasKey(d, K_controller) /\ HasKey(Get(d, K_controller), K_replicaCount)
           /\ Get(Get(d, K_controller), K_replicaCount).kind = "int"
        THEN Get(Get(d, K_controller), K_replicaCount).val
        ELSE 0

(* ------------------------------ claims --------------------------------- *)

\* C1: every invocation that read from /platform/account/env a value other
\* than the exact string "development" ("production", "staging",
\* "Development", ...) returned Status = "SUCCESS" with a HelmValues document
\* whose controller.replicaCount is 2.
C1_OtherValuesGiveTwoReplicas ==
    \A i \in Invocations :
        (ReadValue(i) /\ ValueRead(i) /= "development")
            => (IsSuccess(result[i]) /\ ReplicaCountOf(result[i]) = 2)

C1_Witness ==
    \E i, j \in Invocations :
        /\ ReadValue(i) /\ ValueRead(i) = "Development"
        /\ ReadValue(j) /\ ValueRead(j) = "staging"

\* C2: every invocation that read exactly "development" returned
\* Status = "SUCCESS" with a HelmValues document whose
\* controller.replicaCount is 1.
C2_DevelopmentGivesOneReplica ==
    \A i \in Invocations :
        (ReadValue(i) /\ ValueRead(i) = "development")
            => (IsSuccess(result[i]) /\ ReplicaCountOf(result[i]) = 1)

C2_Witness ==
    \E i \in Invocations : ReadValue(i) /\ ValueRead(i) = "development"

\* C3: no fault propagates out of handler as a raised error: an invocation
\* that met a fault (client construction included) has no exception leaving
\* it, and ends by returning Status = "FAILED" with a Reason.
C3_NoFaultPropagates ==
    \A i \in Invocations :
        /\ error[i] = None
        /\ pc[i] /= "raised"
        /\ ReadFailed(i) => (IsFailed(result[i]) /\ "Reason" \in DOMAIN result[i])

\* C4: an invocation whose read found the key absent (ParameterNotFound)
\* returned Status = "FAILED" with a non-empty Reason that is the error's
\* message, and no Data field.
C4_AbsentKeyFails ==
    \A i \in Invocations :
        (Returned(i) /\ response[i] = Raises(ParameterNotFoundMsg))
            => /\ IsFailed(result[i])
               /\ "Reason" \in DOMAIN result[i]
               /\ result[i].Reason /= ""
               /\ result[i].Reason = ParameterNotFoundMsg
               /\ "Data" \notin DOMAIN result[i]

C4_Witness ==
    \E i \in Invocations :
        Returned(i) /\ response[i] = Raises(ParameterNotFoundMsg) /\ IsFailed(result[i])

SuccessShape(r) ==
    /\ DOMAIN r = {"Status", "Data"}
    /\ r.Status = "SUCCESS"
    /\ DOMAIN r.Data = {"HelmValues"}

FailedShape(r) ==
    /\ DOMAIN r = {"Status", "Reason"}
    /\ r.Status = "FAILED"

\* C5: every value returned by handler has exactly one of the two shapes:
\* Status = "SUCCESS" with Data.HelmValues and no Reason, or
\* Status = "FAILED" with Reason and no Data.
C5_TwoShapes ==
    \A i \in Invocations :
        Returned(i) => (SuccessShape(result[i]) /= FailedShape(result[i]))

C5_Witness ==
    \E i, j \in Invocations :
        /\ Returned(i) /\ SuccessShape(result[i])
        /\ Returned(j) /\ FailedShape(result[j])

\* C6: whenever handler returned Status = "SUCCESS", Data.HelmValues
\* deserializes to exactly {"controller": {"replicaCount": N}} with N in {1, 2}.
C6_PayloadDeserializes ==
    \A i \in Invocations :
        (Returned(i) /\ IsSuccess(result[i]))
            => json_loads(result[i].Data.HelmValues) \in {HelmDoc(1), HelmDoc(2)}

C6_Witness ==
    \E i, j \in Invocations :
        /\ Returned(i) /\ IsSuccess(result[i])
        /\ json_loads(result[i].Data.HelmValues) = HelmDoc(1)
        /\ Returned(j) /\ IsSuccess(result[j])
        /\ json_loads(result[j].Data.HelmValues) = HelmDoc(2)

C8_Step ==
    \A i \in Invocations :
        /\ reads'[i] <= 1
        /\ (pc[i] = "reading" /\ pc'[i] = "reading")
               => (reads'[i] = reads[i] /\ result'[i] = None)
        /\ (pc[i] = "reading" /\ pc'[i] /= "reading")
               => /\ pc'[i] = "done"
                  /\ IsSuccess(result'[i]) \/ IsFailed(result'[i])
                  /\ response'[i].raised => IsFailed(result'[i])
        /\ pc[i] = "done"
               => /\ pc'[i] = "done"
                  /\ reads'[i] = reads[i]
                  /\ response'[i] = response[i]
                  /\ result'[i] = result[i]

\* C8: each invocation issues at most one read; from the outstanding read it
\* moves in one step to the terminal Success or Failed outcome, a failed read
\* giving Failed without a retry; once it has its outcome it reads no more
\* and changes nothing.
C8_OneReadThenTerminal == [][C8_Step]_vars

C8_Witness ==
    \E i \in Invocations : ReadFailed(i) /\ reads[i] = 1 /\ IsFailed(result[i])

HandlerStep(i) ==
    \/ Respond(i)
    \/ \E args \in Arguments, region \in Regions : Invoke(i, args[1], args[2], region)

C10_Step ==
    \A i \in Invocations :
        HandlerStep(i)
            => /\ store' = store
               /\ status' = status
               /\ \A j \in Invocations \ {i} :
                     /\ pc'[j] = pc[j]
                     /\ reads'[j] = reads[j]
                     /\ response'[j] = response[j]
                     /\ result'[j] = result[j]
               /\ pc'[i] = "done" => response'[i] = get_parameter(store, status)

\* C10: no step of the handler, on the success or the failure path, in
\* sequential or interleaved invocations, changes the store or another
\* invocation's state, and the answer an invocation works on is the store's
\* at the moment of its own read.
C10_StoreReadOnly == [][C10_Step]_vars

C10_Witness ==
    \E i, j \in Invocations :
        /\ ReadFailed(i)
        /\ pc[j] = "reading"
        /\ store /= Absent

====
